---- MODULE Spec2Model ----
(***************************************************************************)
(* A model of drupal_standards_to_mdc.py: the link crawler                 *)
(* (get_internal_links, crawl_standards), the rule extractor               *)
(* (extract_rules_from_page), the file synchronizer (sanitize_filename,    *)
(* generate_mdc_content, write_rule_file) and main, which runs them one    *)
(* after the other.                                                        *)
(*                                                                         *)
(* Texts are TLA+ strings, scanned character by character with Len, SubSeq *)
(* and \o, so that substring tests, prefix tests, lower-casing, trimming   *)
(* and newline translation are computed the way the Python code computes   *)
(* them.                                                                   *)
(***************************************************************************)
EXTENDS Integers, Sequences, FiniteSets, TLC

VARIABLES
    pc,          \* where the run is: in main "crawl", "extract", "sync", "done"
    links,       \* the web: hrefs of the <a> elements of each page the server has
    visited,     \* crawl_standards: visited
    to_visit,    \* crawl_standards: to_visit
    crawled,     \* history: url -> [n, ok, new_links] of the crawler's fetches
    pagesLeft,   \* main: pages of "for page in pages" not yet iterated
    extracted,   \* history: url -> [n, ok, rules] of the extractor's fetches
    all_rules,   \* main: all_rules
    ruleIdx,     \* main: number of rules "for rule in all_rules" has passed on
    files,       \* the working directory: filename -> bytes of the file
    log,         \* history: one record per call of write_rule_file
    linesep,     \* os.linesep of the platform the script runs on
    doc,         \* the parsed page handed to the extractor (SpecExtract)
    rules        \* the extractor's result (SpecExtract)

vars == <<pc, links, visited, to_visit, crawled, pagesLeft, extracted,
          all_rules, ruleIdx, files, log, linesep, doc, rules>>

-----------------------------------------------------------------------------
(* Python str operations                                                    *)

Char(s, i) == SubSeq(s, i, i)

\* s[i:] with 1-based i
From(s, i) == IF i > Len(s) THEN "" ELSE SubSeq(s, i, Len(s))

\* s.startswith(p)
StartsWith(s, p) == Len(p) <= Len(s) /\ SubSeq(s, 1, Len(p)) = p

\* p in s
Contains(s, p) ==
    \E i \in 1..(Len(s) - Len(p) + 1) : SubSeq(s, i, i + Len(p) - 1) = p

Min(S) == CHOOSE x \in S : \A y \in S : x <= y
Max(S) == CHOOSE x \in S : \A y \in S : x >= y

\* index of the first character of s at or after i that is in chars, else Len(s)+1
FindAny(s, chars, i) ==
    LET hits == { j \in i..Len(s) : Char(s, j) \in chars }
    IN  IF hits = {} THEN Len(s) + 1 ELSE Min(hits)

\* Out(lo) \o Out(lo+1) \o ... \o Out(hi): the string a character-by-character
\* rewrite produces, Out(i) being what it writes for the character at i
RECURSIVE Rewrite(_, _, _)
Rewrite(Out(_), lo, hi) ==
    IF lo > hi THEN ""
    ELSE IF lo = hi THEN Out(lo)
    ELSE LET mid == (lo + hi) \div 2
         IN  Rewrite(Out, lo, mid) \o Rewrite(Out, mid + 1, hi)

UpperAlpha == "ABCDEFGHIJKLMNOPQRSTUVWXYZ"
LowerAlpha == "abcdefghijklmnopqrstuvwxyz"
Digits == "0123456789"
Whitespace == {" ", "\t", "\n", "\r", "\f"}

LowerChar(c) ==
    IF \E i \in 1..Len(UpperAlpha) : Char(UpperAlpha, i) = c
    THEN Char(LowerAlpha, CHOOSE i \in 1..Len(UpperAlpha) : Char(UpperAlpha, i) = c)
    ELSE c

\* s.lower()
Lower(s) == Rewrite(LAMBDA i : LowerChar(Char(s, i)), 1, Len(s))

\* s.strip()
Strip(s) ==
    LET inked == { i \in 1..Len(s) : Char(s, i) \notin Whitespace }
    IN  IF inked = {} THEN "" ELSE SubSeq(s, Min(inked), Max(inked))

-----------------------------------------------------------------------------
(* urllib.parse, for absolute base URLs and the href forms of LinkMenu      *)

\* index of the first character after "scheme://", 0 when url has no "://"
AuthorityStart(url) ==
    LET c == FindAny(url, {":"}, 1)
    IN  IF c + 2 <= Len(url) /\ SubSeq(url, c, c + 2) = "://"
           /\ FindAny(url, {"/", "?", "#"}, 1) > c
        THEN c + 3 ELSE 0

\* urlparse(url).netloc
Netloc(url) ==
    LET a == AuthorityStart(url)
    IN  IF a = 0 THEN "" ELSE SubSeq(url, a, FindAny(url, {"/", "?", "#"}, a) - 1)

\* urlparse(url).path
Path(url) ==
    LET a == AuthorityStart(url)
        p == IF a = 0 THEN 1 ELSE FindAny(url, {"/", "?", "#"}, a)
    IN  SubSeq(url, p, FindAny(url, {"?", "#"}, p) - 1)

\* url up to and including its scheme's colon
SchemeColon(url) == SubSeq(url, 1, FindAny(url, {":"}, 1))

\* url without its fragment
DropFragment(url) == SubSeq(url, 1, FindAny(url, {"#"}, 1) - 1)

\* index of the last "/" of s, 0 when there is none
LastSlash(s) ==
    LET hits == { j \in 1..Len(s) : Char(s, j) = "/" }
    IN  IF hits = {} THEN 0 ELSE Max(hits)

\* urljoin(base, href)
urljoin(base, href) ==
    IF href = "" THEN base
    ELSE IF AuthorityStart(href) # 0 THEN href
    ELSE IF StartsWith(href, "//") THEN SchemeColon(base) \o href
    ELSE IF StartsWith(href, "/")
         THEN SchemeColon(base) \o "//" \o Netloc(base) \o href
    ELSE IF StartsWith(href, "#") THEN DropFragment(base) \o href
    ELSE LET dir == SubSeq(Path(base), 1, LastSlash(Path(base)))
         IN  SchemeColon(base) \o "//" \o Netloc(base) \o dir \o href

-----------------------------------------------------------------------------
(* The crawler                                                              *)

BASE_URL == "https://www.drupal.org/docs/develop/standards"
ScopePrefix == "/docs/develop/standards"

PagePhp == "https://www.drupal.org/docs/develop/standards/php"
PageLookalike == "https://www.drupal.org.evil.example/docs/develop/standards"

\* the pages the server answers with HTML; every other URL is a 404
KnownPages == {BASE_URL, PagePhp, PageLookalike}

\* the href sets a page of the model may carry
LinkMenu ==
    { {},
      {"/docs/develop/standards/php", "standards/css",
       "https://www.drupal.org/project/drupal"},
      {"https://www.drupal.org/docs/develop/standards", "#top"},
      {"https://www.drupal.org.evil.example/docs/develop/standards",
       "//example.com/docs/develop/standards/x"} }

\* the link filter of get_internal_links
LinkAdmitted(full_url, base_domain) ==
    /\ Contains(Netloc(full_url), base_domain)
    /\ StartsWith(Path(full_url), ScopePrefix)

\* get_internal_links(url, base_domain), given the outcome of requests.get
get_internal_links(url, base_domain, ok) ==
    IF ~ok THEN {}
    ELSE { full_url \in { urljoin(url, href) : href \in links[DropFragment(url)] } :
             LinkAdmitted(full_url, base_domain) }


\* requests.get(url) + raise_for_status(): the outcomes a fetch of url can have
FetchOutcomes(url) ==
    IF DropFragment(url) \in KnownPages THEN BOOLEAN ELSE {FALSE}

\* "if current in visited: continue"
AlreadyVisited(current, vis) == current \in vis

\* a crawler that replaces the frontier instead of extending it
NextFrontier_DropPending(rest, new_links, vis) == new_links \ vis

\* "to_visit = to_visit.union(new_links - visited)"
NextFrontier(rest, new_links, vis) == rest \cup (new_links \ vis)

\* a crawler that forgets to mark the page visited
MarkVisited_Forget(vis, current) == vis

\* "visited.add(current)"
MarkVisited(vis, current) == vis \cup {current}

\* the fetch counters of the history count up to FetchCap
FetchCap == 2

\* bookkeeping: one more fetch of url, with its outcome and result
Fetched(hist, url, ok, result) ==
    LET n == IF url \in DOMAIN hist
             THEN IF hist[url].n < FetchCap THEN hist[url].n + 1 ELSE FetchCap
             ELSE 1
        rec == [n |-> n, ok |-> ok, result |-> result]
    IN  [u \in DOMAIN hist \cup {url} |-> IF u = url THEN rec ELSE hist[u]]

-----------------------------------------------------------------------------
(* The parsed page: the tags of the document in document order, each with   *)
(* the index of its parent tag (0 for a top-level tag) and the text it      *)
(* holds directly, before its first child.                                  *)

BoundaryHeadings == {"h2", "h3"}
CodeTags == {"pre", "code"}
Placeholder == "EXAMPLE_CODE_HERE"

Node(name, text, parent) == [name |-> name, text |-> text, parent |-> parent]

\* tag j lies inside tag i
RECURSIVE IsInside(_, _, _)
IsInside(d, j, i) ==
    /\ d[j].parent # 0
    /\ (d[j].parent = i \/ IsInside(d, d[j].parent, i))

\* tag.get_text(strip=True): the stripped strings of the tag and its descendants
RECURSIVE TextFrom(_, _, _)
TextFrom(d, i, j) ==
    IF j > Len(d) THEN ""
    ELSE (IF j = i \/ IsInside(d, j, i) THEN Strip(d[j].text) ELSE "")
         \o TextFrom(d, i, j + 1)
get_text(d, i) == TextFrom(d, i, i)

Indices(d) == [k \in 1..Len(d) |-> k]

\* header.find_next_siblings()
find_next_siblings(d, i) ==
    SelectSeq(Indices(d), LAMBDA j : j > i /\ d[j].parent = d[i].parent)

\* header.find_next(): the next tag in document order, <<>> for None
find_next(d, i) == IF i < Len(d) THEN <<i + 1>> ELSE <<>>

\* " ".join(parts)
RECURSIVE Join(_)
Join(parts) ==
    IF Len(parts) = 0 THEN ""
    ELSE IF Len(parts) = 1 THEN parts[1]
    ELSE parts[1] \o " " \o Join(Tail(parts))

\* a filter that forgets title.lower()
TitleSkipped_CaseSensitive(title) == Len(title) < 3 \/ Contains(title, "example")

\* "if len(title) < 3 or "example" in title.lower(): continue"
TitleSkipped(title) == Len(title) < 3 \/ Contains(Lower(title), "example")

\* an extractor that keeps the first code block it met
CodeExampleAfter_KeepFirst(code, text) == IF code = <<>> THEN <<text>> ELSE code

\* "code_example = sibling.get_text(strip=True)" for a pre or code sibling
CodeExampleAfter(code, text) == <<text>>

\* the loop over header.find_next_siblings(): [parts, code] after siblings k..
RECURSIVE WalkSiblings(_, _, _, _, _)
WalkSiblings(d, sibs, k, parts, code) ==
    IF k > Len(sibs) \/ d[sibs[k]].name \in BoundaryHeadings
    THEN [parts |-> parts, code |-> code]
    ELSE LET name == d[sibs[k]].name
             text == get_text(d, sibs[k])
         IN  WalkSiblings(d, sibs, k + 1,
                 IF name = "p" THEN Append(parts, text) ELSE parts,
                 IF name \in CodeTags THEN CodeExampleAfter(code, text) ELSE code)

\* an extractor without the description fallback
FallbackParts_None(d, i) == <<>>

\* the description fallback: the text of header.find_next(), when there is one
FallbackParts(d, i) ==
    IF find_next(d, i) # <<>> THEN <<get_text(d, find_next(d, i)[1])>> ELSE <<>>

\* the rule built for the qualifying header at index i
RuleAt(d, i) ==
    LET w == WalkSiblings(d, find_next_siblings(d, i), 1, <<>>, <<>>)
        parts == IF w.parts = <<>> THEN FallbackParts(d, i) ELSE w.parts
        example == IF w.code = <<>> \/ w.code[1] = "" THEN Placeholder ELSE w.code[1]
    IN  [title |-> get_text(d, i), description |-> Join(parts), example |-> example]

\* "for header in soup.find_all(['h2', 'h3'])" from tag i on
RECURSIVE RulesFrom(_, _)
RulesFrom(d, i) ==
    IF i > Len(d) THEN <<>>
    ELSE IF d[i].name \in BoundaryHeadings /\ ~TitleSkipped(get_text(d, i))
         THEN <<RuleAt(d, i)>> \o RulesFrom(d, i + 1)
    ELSE RulesFrom(d, i + 1)

\* an extractor that parses whatever came back, without raise_for_status()
extract_rules_from_page_NoStatusCheck(d, ok) == RulesFrom(d, 1)

\* extract_rules_from_page, given the outcome of requests.get and the parsed page
extract_rules_from_page(d, ok) == IF ~ok THEN <<>> ELSE RulesFrom(d, 1)

-----------------------------------------------------------------------------
(* The file synchronizer                                                    *)

\* re.sub(r'\s+', '-', s): every run of whitespace becomes one hyphen
HyphenateSpace(s) ==
    Rewrite(LAMBDA i :
                IF Char(s, i) \notin Whitespace THEN Char(s, i)
                ELSE IF i > 1 /\ Char(s, i - 1) \in Whitespace THEN ""
                ELSE "-",
            1, Len(s))

\* the characters [a-z0-9\-] keeps
SafeChar(c) ==
    \/ c = "-"
    \/ \E i \in 1..Len(LowerAlpha) : Char(LowerAlpha, i) = c
    \/ \E i \in 1..Len(Digits) : Char(Digits, i) = c

\* re.sub(r'[^a-z0-9\-]', '', s)
KeepSafe(s) ==
    Rewrite(LAMBDA i : IF SafeChar(Char(s, i)) THEN Char(s, i) ELSE "", 1, Len(s))

sanitize_filename(title) ==
    KeepSafe(HyphenateSpace(Lower(Strip(title)))) \o ".mdc"

generate_mdc_content(rule) ==
    "---\n" \o "description: " \o rule.description \o "\n"
    \o "globs: \n" \o "---\n"
    \o rule.description \o ": " \o rule.example \o "\n"

\* f.write(text) of a file opened in text mode: "\n" is written as os.linesep
WriteText(text, sep) ==
    Rewrite(LAMBDA i : IF Char(text, i) = "\n" THEN sep ELSE Char(text, i),
            1, Len(text))

\* f.read() of a file opened in text mode: "\r\n" and "\r" are read as "\n"
ReadText(bytes) ==
    Rewrite(LAMBDA i :
                IF Char(bytes, i) = "\r" THEN "\n"
                ELSE IF Char(bytes, i) = "\n" /\ i > 1 /\ Char(bytes, i - 1) = "\r"
                     THEN ""
                ELSE Char(bytes, i),
            1, Len(bytes))

\* "if old_content == new_content"
UpToDate(old_content, new_content) == old_content = new_content

\* what write_rule_file(rule) prints: "created", "updated" or "unchanged"
Outcome(dir, rule) ==
    LET filename == sanitize_filename(rule.title)
    IN  IF filename \in DOMAIN dir
        THEN IF UpToDate(ReadText(dir[filename]), generate_mdc_content(rule))
             THEN "unchanged" ELSE "updated"
        ELSE "created"

\* a synchronizer that never overwrites a file that exists
write_rule_file_KeepExisting(dir, rule, sep) ==
    LET filename == sanitize_filename(rule.title)
    IN  IF filename \in DOMAIN dir THEN dir
        ELSE [f \in DOMAIN dir \cup {filename} |->
                IF f = filename THEN WriteText(generate_mdc_content(rule), sep)
                ELSE dir[f]]

\* the directory after write_rule_file(rule)
write_rule_file(dir, rule, sep) ==
    LET filename == sanitize_filename(rule.title)
    IN  IF Outcome(dir, rule) = "unchanged" THEN dir
        ELSE [f \in DOMAIN dir \cup {filename} |->
                IF f = filename THEN WriteText(generate_mdc_content(rule), sep)
                ELSE dir[f]]

\* bookkeeping: the record of one call of write_rule_file, with the bytes
\* of the rule's file when the call returns
Call(dir, rule, sep) ==
    [rule |-> rule, filename |-> sanitize_filename(rule.title),
     existed |-> sanitize_filename(rule.title) \in DOMAIN dir,
     outcome |-> Outcome(dir, rule),
     bytes |-> write_rule_file(dir, rule, sep)[sanitize_filename(rule.title)]]

EmptyDir == [f \in {} |-> ""]
NoHistory == [u \in {} |-> 0]

-----------------------------------------------------------------------------
(* main: crawl, then extract every page, then sync every rule               *)

Rule(t, d, e) == [title |-> t, description |-> d, example |-> e]

\* the parsed HTML the server has for each page
PageDoc(url) ==
    CASE url = BASE_URL ->
           << Node("h2", "Casting", 0), Node("p", "Put a space.", 0),
              Node("pre", "(int) $x", 0) >>
      [] url = PagePhp ->
           << Node("h2", "See Examples", 0), Node("h3", "Casting!", 0),
              Node("p", "Cast with care.", 0) >>
      [] OTHER ->
           << Node("h2", "Operators", 0) >>

\* the web the run finds: every page carries one of the href sets of LinkMenu
Webs == [KnownPages -> LinkMenu]

Init ==
    /\ pc = "crawl"
    /\ links \in Webs
    /\ visited = {}
    /\ to_visit = {BASE_URL}
    /\ crawled = NoHistory
    /\ pagesLeft = {}
    /\ extracted = NoHistory
    /\ all_rules = <<>>
    /\ ruleIdx = 0
    /\ files = EmptyDir
    /\ log = <<>>
    /\ linesep = "\n"
    /\ doc = <<>>
    /\ rules = <<>>

\* one iteration of "while to_visit" in crawl_standards
CrawlStep ==
    /\ pc = "crawl"
    /\ to_visit # {}
    /\ \E current \in to_visit :
         LET rest == to_visit \ {current}
         IN  IF AlreadyVisited(current, visited)
             THEN /\ to_visit' = rest
                  /\ UNCHANGED <<visited, crawled>>
             ELSE \E ok \in FetchOutcomes(current) :
                    LET new_links ==
                            get_internal_links(current, Netloc(BASE_URL), ok)
                    IN  /\ visited' = MarkVisited(visited, current)
                        /\ to_visit' = NextFrontier(rest, new_links, visited')
                        /\ crawled' = Fetched(crawled, current, ok, new_links)
    /\ UNCHANGED <<pc, links, pagesLeft, extracted, all_rules, ruleIdx, files,
                   log, linesep, doc, rules>>

\* crawl_standards returns visited; main starts "for page in pages"
CrawlReturn ==
    /\ pc = "crawl"
    /\ to_visit = {}
    /\ pc' = "extract"
    /\ pagesLeft' = visited
    /\ UNCHANGED <<links, visited, to_visit, crawled, extracted, all_rules,
                   ruleIdx, files, log, linesep, doc, rules>>

\* a main that leaves "for page in pages" after its first iteration
AfterPage_LeaveLoop(left) == "sync"

\* where main goes after an iteration of "for page in pages"
AfterPage(left) == "extract"

\* one iteration of "for page in pages" in main
ExtractStep ==
    /\ pc = "extract"
    /\ pagesLeft # {}
    /\ \E page \in pagesLeft : \E ok \in FetchOutcomes(page) :
         LET found == extract_rules_from_page(PageDoc(DropFragment(page)), ok)
         IN  /\ pagesLeft' = pagesLeft \ {page}
             /\ all_rules' = IF found # <<>> THEN all_rules \o found ELSE all_rules
             /\ extracted' = Fetched(extracted, page, ok, found)
             /\ pc' = AfterPage(pagesLeft')
    /\ UNCHANGED <<links, visited, to_visit, crawled, ruleIdx, files, log,
                   linesep, doc, rules>>

\* "for page in pages" is exhausted; main starts "for rule in all_rules"
ExtractDone ==
    /\ pc = "extract"
    /\ pagesLeft = {}
    /\ pc' = "sync"
    /\ UNCHANGED <<links, visited, to_visit, crawled, pagesLeft, extracted,
                   all_rules, ruleIdx, files, log, linesep, doc, rules>>

\* one iteration of "for rule in all_rules" in main
SyncStep ==
    /\ pc = "sync"
    /\ ruleIdx < Len(all_rules)
    /\ LET rule == all_rules[ruleIdx + 1]
       IN  /\ files' = write_rule_file(files, rule, linesep)
           /\ log' = Append(log, Call(files, rule, linesep))
    /\ ruleIdx' = ruleIdx + 1
    /\ UNCHANGED <<pc, links, visited, to_visit, crawled, pagesLeft, extracted,
                   all_rules, linesep, doc, rules>>

\* "for rule in all_rules" is exhausted; main returns
SyncDone ==
    /\ pc = "sync"
    /\ ruleIdx = Len(all_rules)
    /\ pc' = "done"
    /\ UNCHANGED <<links, visited, to_visit, crawled, pagesLeft, extracted,
                   all_rules, ruleIdx, files, log, linesep, doc, rules>>

Next ==
    \/ CrawlStep
    \/ CrawlReturn
    \/ ExtractStep
    \/ ExtractDone
    \/ SyncStep
    \/ SyncDone

Spec == Init /\ [][Next]_vars

\* crawl_standards runs in one sequential thread: while its loop can take an
\* iteration it takes one, and when the loop ends it returns
FairSpec == Spec /\ WF_vars(CrawlStep) /\ WF_vars(CrawlReturn)

-----------------------------------------------------------------------------
(* The extractor on its own: extract_rules_from_page on the pages of        *)
(* Documents                                                                *)

MaxNodes == 3

\* tags that carry child tags in the pages of the model
Containers == {"div", "h2", "h3"}

TagMenu ==
    { <<"h2", "Casting">>, <<"h3", "ab">>, <<"h2", " See EXAMPLES ">>,
      <<"p", " Use a space. ">>, <<"pre", " (int) $x ">>, <<"code", "$y">>,
      <<"div", "">>, <<"a", "s">> }

\* the open tags after tag j: j and its ancestors that may carry children
RECURSIVE OpenTags(_, _)
OpenTags(d, j) ==
    IF j = 0 THEN {0}
    ELSE (IF d[j].name \in Containers THEN {j} ELSE {}) \cup OpenTags(d, d[j].parent)

\* the pages of n tags: each tag a child of a tag still open, or top-level
RECURSIVE PagesOfLen(_)
PagesOfLen(n) ==
    IF n = 0 THEN {<<>>}
    ELSE { Append(d, Node(t[1], t[2], par)) :
             d \in PagesOfLen(n - 1), t \in TagMenu, par \in 0..(n - 1) }

WellFormed(d) ==
    \A j \in 1..Len(d) :
        d[j].parent \in (IF j = 1 THEN {0} ELSE OpenTags(d, j - 1))

Documents ==
    UNION { { d \in PagesOfLen(n) : WellFormed(d) } : n \in 1..MaxNodes }

InitExtract ==
    /\ pc = "page"
    /\ doc \in Documents
    /\ rules = <<>>
    /\ links = [u \in KnownPages |-> {}]
    /\ visited = {}
    /\ to_visit = {}
    /\ crawled = NoHistory
    /\ pagesLeft = {}
    /\ extracted = NoHistory
    /\ all_rules = <<>>
    /\ ruleIdx = 0
    /\ files = EmptyDir
    /\ log = <<>>
    /\ linesep = "\n"

\* extract_rules_from_page(url) for a url whose page parses to doc
ExtractPage ==
    /\ pc = "page"
    /\ \E ok \in BOOLEAN :
         /\ rules' = extract_rules_from_page(doc, ok)
         /\ pc' = IF ok THEN "extracted" ELSE "fetch_failed"
    /\ UNCHANGED <<links, visited, to_visit, crawled, pagesLeft, extracted,
                   all_rules, ruleIdx, files, log, linesep, doc>>

NextExtract == ExtractPage

SpecExtract == InitExtract /\ [][NextExtract]_vars

-----------------------------------------------------------------------------
(* The synchronizer on its own: a run's calls of write_rule_file, in a      *)
(* directory that is empty or was left by an earlier run                    *)

MaxCalls == 3

CR == "\r"
LF == "\n"

SyncRules ==
    { Rule("Casting", "Put a space.", "(int) $x"),
      Rule("CASTING", "Put a space.", "(int) $x"),
      Rule("Casting!", "Cast with care.", Placeholder),
      Rule("Line endings", "Use LF.", "a" \o CR \o LF \o "b"),
      Rule("Line  Endings", "Use LF only.", "a" \o CR \o LF \o "b") }

\* the directory an earlier run left after syncing rule on a platform with sep
LeftBy(rule, sep) == write_rule_file(EmptyDir, rule, sep)

InitSync ==
    /\ pc = "calls"
    /\ linesep \in {LF, CR \o LF}
    /\ files \in {EmptyDir} \cup { LeftBy(r, linesep) : r \in SyncRules }
    /\ log = <<>>
    /\ links = [u \in KnownPages |-> {}]
    /\ visited = {}
    /\ to_visit = {}
    /\ crawled = NoHistory
    /\ pagesLeft = {}
    /\ extracted = NoHistory
    /\ all_rules = <<>>
    /\ ruleIdx = 0
    /\ doc = <<>>
    /\ rules = <<>>

\* write_rule_file(rule), as an iteration of "for rule in all_rules" calls it
CallWriteRuleFile ==
    /\ pc = "calls"
    /\ Len(log) < MaxCalls
    /\ \E rule \in SyncRules :
         /\ files' = write_rule_file(files, rule, linesep)
         /\ log' = Append(log, Call(files, rule, linesep))
    /\ UNCHANGED <<pc, links, visited, to_visit, crawled, pagesLeft, extracted,
                   all_rules, ruleIdx, linesep, doc, rules>>

NextSync == CallWriteRuleFile

SpecSync == InitSync /\ [][NextSync]_vars

-----------------------------------------------------------------------------
(* Properties of the crawler and of main (Spec, FairSpec)                   *)

\* url is in scope: the seed's host, and a path under the scope prefix
InScope(url) ==
    Netloc(url) = Netloc(BASE_URL) /\ StartsWith(Path(url), ScopePrefix)

\* the absolute link targets of the page at url
Targets(url) == { urljoin(url, href) : href \in links[DropFragment(url)] }

\* the URLs whose fetch by the crawler succeeded, and those whose fetch failed
CrawledOk == { u \in DOMAIN crawled : crawled[u].ok }
CrawlFailed == { u \in DOMAIN crawled : ~crawled[u].ok }
ExtractFailed == { u \in DOMAIN extracted : ~extracted[u].ok }

\* C1: every URL the crawler returns, and every URL get_internal_links admits
\* to the frontier, has the seed's host and a path that starts with
\* '/docs/develop/standards'.
C1_ScopeContainment ==
    \A u \in visited \cup to_visit : InScope(u)

\* C2: the crawl terminates on every web of the model, cycles and self-links
\* included (the frontier becomes empty and crawl_standards returns), and the
\* crawler fetches no URL more than once.
C2_CrawlTerminates ==
    /\ <>(to_visit = {} /\ pc # "crawl")
    /\ [](\A u \in DOMAIN crawled : crawled[u].n <= 1)

\* C2's case: the crawl has returned from a web where the seed and the php page
\* link to each other and a fetched page links to itself.
C2_Witness ==
    /\ pc = "extract"
    /\ {BASE_URL, PagePhp} \subseteq CrawledOk
    /\ PagePhp \in crawled[BASE_URL].result
    /\ BASE_URL \in crawled[PagePhp].result
    /\ \E u \in CrawledOk : u \in crawled[u].result

\* the pages reached from the seed over in-scope links of pages the crawler
\* fetched successfully
RECURSIVE ReachedFrom(_)
ReachedFrom(S) ==
    LET more == S \cup UNION { { t \in Targets(u) : InScope(t) } : u \in S \cap CrawledOk }
    IN  IF more = S THEN S ELSE ReachedFrom(more)

\* the rules write_rule_file has been called with
Synced == { log[i].rule : i \in 1..Len(log) }

\* C3: a page whose fetch fails contributes no links to the crawl and no rules
\* to the extraction, is marked visited and returned, is fetched once only by
\* the crawler, and does not stop the run: every page reachable without it is
\* visited, extracted, and has its rules synced.
C3_FetchFailureIsolation ==
    /\ \A u \in CrawlFailed :
         crawled[u].result = {} /\ u \in visited /\ crawled[u].n = 1
    /\ \A u \in ExtractFailed : extracted[u].result = <<>>
    /\ pc # "crawl" => CrawlFailed \cup ReachedFrom({BASE_URL}) \subseteq visited
    /\ pc \in {"sync", "done"} => ReachedFrom({BASE_URL}) \subseteq DOMAIN extracted
    /\ pc = "done" =>
         \A u \in DOMAIN extracted :
            \A k \in 1..Len(extracted[u].result) : extracted[u].result[k] \in Synced

\* C3's case: a finished run in which a crawler fetch failed, an extractor
\* fetch of a page the server has failed, and another page's rule was synced.
C3_Witness ==
    /\ pc = "done"
    /\ CrawlFailed # {}
    /\ \E u \in ExtractFailed : DropFragment(u) \in KnownPages
    /\ \E u \in DOMAIN extracted : extracted[u].ok /\ extracted[u].result # <<>>
    /\ Len(log) >= 1

\* the number of rules, and of copies of rule r, the extractor returned for
\* the pages of S
RECURSIVE CountExtracted(_, _)
CountExtracted(Counts(_), S) ==
    IF S = {} THEN 0
    ELSE LET u == CHOOSE x \in S : TRUE
         IN  Counts(extracted[u].result) + CountExtracted(Counts, S \ {u})

Copies(seq, r) == Cardinality({ k \in 1..Len(seq) : seq[k] = r })

\* C8: main's stages are strictly ordered: no extraction fetch before the
\* crawl has returned its visited set, no file touched before every crawled
\* page is extracted; every crawled page is extracted exactly once and every
\* extracted rule is passed to write_rule_file exactly once.
C8_StagesOrdered ==
    /\ DOMAIN extracted # {} =>
         pc \in {"extract", "sync", "done"} /\ to_visit = {}
    /\ pc # "crawl" => visited = DOMAIN crawled
    /\ \A u \in DOMAIN extracted : u \in visited /\ extracted[u].n = 1
    /\ (Len(log) > 0 \/ DOMAIN files # {} \/ pc \in {"sync", "done"}) =>
         /\ pc \in {"sync", "done"}
         /\ pagesLeft = {}
         /\ DOMAIN extracted = visited
    /\ pc = "done" =>
         /\ Len(log) = CountExtracted(LAMBDA found : Len(found), DOMAIN extracted)
         /\ \A r \in Synced :
              Copies([i \in 1..Len(log) |-> log[i].rule], r)
                = CountExtracted(LAMBDA found : Copies(found, r), DOMAIN extracted)
         /\ \A u \in DOMAIN extracted :
              \A k \in 1..Len(extracted[u].result) : extracted[u].result[k] \in Synced

\* C8's case: a finished run over three or more pages that synced two or more
\* rules.
C8_Witness ==
    /\ pc = "done"
    /\ Cardinality(visited) >= 3
    /\ Len(log) >= 2

\* C10: the returned set holds the seed; for every returned URL fetched
\* successfully it holds every in-scope link target of that page; and every
\* returned URL but the seed is a link target of a returned page that was
\* fetched successfully.
C10_ClosedAndComplete ==
    pc # "crawl" =>
        /\ BASE_URL \in visited
        /\ \A u \in visited \cap CrawledOk :
              \A t \in Targets(u) : InScope(t) => t \in visited
        /\ \A v \in visited \ {BASE_URL} :
              \E u \in visited \cap CrawledOk : v \in Targets(u)

\* C10's case: the crawl returned three or more pages, one of them found only
\* through a page other than the seed, and one of them failed to fetch.
C10_Witness ==
    /\ pc = "extract"
    /\ Cardinality(visited) >= 3
    /\ CrawlFailed # {}
    /\ \E v \in visited \ {BASE_URL} : v \notin Targets(BASE_URL)

-----------------------------------------------------------------------------
(* Properties of the extractor (SpecExtract)                                *)

\* title holds "example" in some letter case
HoldsExampleAnyCase(title) ==
    \E i \in 1..(Len(title) - 6) : Lower(SubSeq(title, i, i + 6)) = "example"

\* the heading filter as the specification states it
Qualifies(title) == Len(title) >= 3 /\ ~HoldsExampleAnyCase(title)

\* the h2/h3 tags of page d that pass the filter, in document order
QualifyingHeadings(d) ==
    SelectSeq(Indices(d),
              LAMBDA i : d[i].name \in BoundaryHeadings /\ Qualifies(get_text(d, i)))

\* the siblings after heading i, up to the next h2/h3 sibling
SectionOf(d, i) ==
    SelectSeq(Indices(d),
              LAMBDA j : /\ j > i
                         /\ d[j].parent = d[i].parent
                         /\ \A k \in (i + 1)..j :
                              d[k].parent = d[i].parent => d[k].name \notin BoundaryHeadings)

\* the pre and code siblings of the section of heading i
CodeSiblings(d, i) == SelectSeq(SectionOf(d, i), LAMBDA j : d[j].name \in CodeTags)

\* the extractor returned one rule for each qualifying heading
OneRulePerHeading ==
    /\ pc = "extracted"
    /\ Len(rules) = Len(QualifyingHeadings(doc))

\* C5: every emitted rule has a title of at least 3 characters that does not
\* hold "example" in any letter case, and the rules are the h2/h3 headings
\* that pass the filter, one rule each, in document order.
C5_HeadingFilter ==
    pc = "extracted" =>
        /\ \A k \in 1..Len(rules) :
              Len(rules[k].title) >= 3 /\ ~HoldsExampleAnyCase(rules[k].title)
        /\ Len(rules) = Len(QualifyingHeadings(doc))
        /\ \A k \in 1..Len(rules) :
              rules[k].title = get_text(doc, QualifyingHeadings(doc)[k])

\* C5's case: a page with a heading "ab", a heading " See EXAMPLES " and a
\* heading that passes, extracted to one rule.
C5_Witness ==
    /\ pc = "extracted"
    /\ \E i \in 1..Len(doc) : doc[i].name \in BoundaryHeadings /\ get_text(doc, i) = "ab"
    /\ \E i \in 1..Len(doc) :
          doc[i].name \in BoundaryHeadings /\ get_text(doc, i) = "See EXAMPLES"
    /\ Len(rules) = 1

\* C6 as stated: with two or more pre/code siblings in its section, the rule's
\* example is the text of the first of them; the placeholder is used only
\* when the section has no pre/code sibling.
C6_FirstCodeBlock ==
    OneRulePerHeading =>
        \A k \in 1..Len(rules) :
            LET cs == CodeSiblings(doc, QualifyingHeadings(doc)[k])
            IN  /\ Len(cs) >= 2 => rules[k].example = get_text(doc, cs[1])
                /\ rules[k].example = Placeholder => cs = <<>>

\* C6 as amended: the rule's example is the text of the last pre/code sibling
\* of its section; the placeholder is used when the section has no pre/code
\* sibling or when the last one's text is empty.
C6_LastCodeBlock ==
    OneRulePerHeading =>
        \A k \in 1..Len(rules) :
            LET cs == CodeSiblings(doc, QualifyingHeadings(doc)[k])
            IN  rules[k].example =
                    IF cs = <<>> \/ get_text(doc, cs[Len(cs)]) = ""
                    THEN Placeholder
                    ELSE get_text(doc, cs[Len(cs)])

\* C6's case: a rule whose section has two pre/code siblings of different
\* text, extracted with the text of the second.
C6_Witness ==
    /\ OneRulePerHeading
    /\ \E k \in 1..Len(rules) :
          LET cs == CodeSiblings(doc, QualifyingHeadings(doc)[k])
          IN  /\ Len(cs) >= 2
              /\ get_text(doc, cs[1]) # get_text(doc, cs[Len(cs)])
              /\ rules[k].example = get_text(doc, cs[Len(cs)])

\* C7 as stated: a qualifying heading with no sibling before the next h2/h3
\* (or the end of its parent) is emitted with an empty description and the
\* placeholder as example.
C7_EmptyDescription ==
    OneRulePerHeading =>
        \A k \in 1..Len(rules) :
            SectionOf(doc, QualifyingHeadings(doc)[k]) = <<>> =>
                rules[k].description = "" /\ rules[k].example = Placeholder

\* C7 as amended: such a heading is emitted with the placeholder as example,
\* and its description is the text of the next tag of the document, whichever
\* it is (a tag inside the heading, the next h2/h3, a tag after the heading's
\* parent), empty only when the heading is the last tag.
C7_FallbackDescription ==
    /\ pc = "extracted" => Len(rules) = Len(QualifyingHeadings(doc))
    /\ OneRulePerHeading =>
         \A k \in 1..Len(rules) :
            LET i == QualifyingHeadings(doc)[k]
            IN  SectionOf(doc, i) = <<>> =>
                  /\ rules[k].example = Placeholder
                  /\ rules[k].description =
                        IF i < Len(doc) THEN get_text(doc, i + 1) ELSE ""

\* C7's case: three headings without siblings in their sections were
\* extracted: one took its description from the h2/h3 that follows it, one
\* from a tag inside itself, and one, the last tag, has none.
C7_Witness ==
    /\ OneRulePerHeading
    /\ \E k \in 1..Len(rules) :
          LET i == QualifyingHeadings(doc)[k]
          IN  /\ SectionOf(doc, i) = <<>>
              /\ i < Len(doc)
              /\ doc[i + 1].name \in BoundaryHeadings
              /\ doc[i + 1].parent = doc[i].parent
              /\ rules[k].description = get_text(doc, i + 1)
              /\ rules[k].description # ""
    /\ \E k \in 1..Len(rules) :
          LET i == QualifyingHeadings(doc)[k]
          IN  /\ SectionOf(doc, i) = <<>>
              /\ i = Len(doc)
              /\ rules[k].description = ""

-----------------------------------------------------------------------------
(* Properties of the synchronizer (SpecSync)                                *)

\* the calls i < j of the run are on one file, for rules of different titles
Collide(i, j) ==
    /\ i < j
    /\ log[i].filename = log[j].filename
    /\ log[i].rule.title # log[j].rule.title

\* calls i and j are the only calls of the run on their file
OnlyCallsOnFile(i, j) ==
    \A k \in 1..Len(log) : log[k].filename = log[i].filename => k \in {i, j}

\* what write_rule_file writes for rule on this platform
Written(rule) == WriteText(generate_mdc_content(rule), linesep)

\* C4: with no file at the rule's filename, two calls in a row with the same
\* rule give 'created' and then 'unchanged'; the file after the second call
\* is byte-identical to the file after the first and holds the rendered rule.
C4_IdempotentSync ==
    \A i \in 1..(Len(log) - 1) :
        (~log[i].existed /\ log[i + 1].rule = log[i].rule) =>
            /\ log[i].outcome = "created"
            /\ log[i + 1].outcome = "unchanged"
            /\ log[i + 1].bytes = log[i].bytes
            /\ log[i].bytes = Written(log[i].rule)

====
